---- MODULE Spec2Model ----
(***************************************************************************)
(* A model of the bridge relay of src/bridge.py: the persistent range      *)
(* scanner (_scan_from_last), the transaction submitter                    *)
(* (_build_and_send_tx), the argument normaliser (_extract_bridge_args),   *)
(* the two state files and the orchestrating scan_blocks.                  *)
(*                                                                         *)
(* One invocation of scan_blocks(chain) is a sequence of steps, cut at its *)
(* blocking RPC calls: ScanBlocksBegin (argument check, file loads, head   *)
(* read), ScanFromLast (all getLogs requests, then _save_state),           *)
(* ScanBlocksDispatch (the "no events" return), RelayNext (the for-loop    *)
(* header up to the call of _build_and_send_tx), SendAttempt (one turn of  *)
(* the retry loop) and, from the chain's side, MinePending (what becomes   *)
(* of a transaction whose receipt wait timed out).  ScanBlocksOther is the *)
(* call with an argument that names no direction, SaveStateCrash the       *)
(* process dying inside _save_state.                                       *)
(*                                                                         *)
(* Spec runs the invocations one after another against an RPC that may     *)
(* fail; ReliableSpec, NamesSpec, AnyArgSpec and CrashSpec run them one    *)
(* after another against an RPC that answers (RefusalSpec with refused     *)
(* broadcasts, FirstRunSpec with high heads); OverlapSpec lets the two     *)
(* directions overlap.                                                     *)
(***************************************************************************)
EXTENDS Integers, Sequences, FiniteSets, TLC

VARIABLES
    blockOf,        \* event -> block height of its log on its origin chain
    argNames,       \* the names the ABI of d2's contract gives token, recipient, amount
    stateFile,      \* bridge_state.json: [source_last, destination_last]
    processedFile,  \* processed_events.json: set of event ids
    inv,            \* per direction: the local state of its scan_blocks invocation
    pending,        \* per chain: the warden's unmined transaction at its current nonce
    minted,         \* event -> number of counterpart transactions mined with status 1
    okReceipt,      \* events for which a receipt with status 1 was returned
    ret,            \* <<v>>: the invocation that finished last returned v; <<>> before any
    timeouts,       \* number of receipt waits that have timed out so far
    tornSave,       \* <<>>, or <<prior, new>> while bridge_state.json is what a
                    \* _save_state that died between open(.., "w") and the end
                    \* of json.dump left of it: prior was on disk, new was to be
    badArg,         \* the argument of the latest call of scan_blocks that named
                    \* neither direction; NoTx before any
    gasPrice        \* what w3.eth.gas_price answers

vars == <<blockOf, argNames, stateFile, processedFile, inv, pending, minted, okReceipt, ret,
          timeouts, tornSave, badArg, gasPrice>>

----------------------------------------------------------------------------
(* Bounds of the model *)

\* highest block height a chain head can report
MaxHead == 3
\* highest block that holds a log of the bridge contracts
MaxLogBlock == 1
\* how many receipt waits may time out in one behaviour
MaxTimeouts == 1
\* highest gas price a node reports
MaxGasPrice == 2

(* Program constants *)

\* CHUNK of _scan_from_last
CHUNK == 500
\* safety_back of _scan_from_last as scan_blocks passes it
safety_back == 200
\* max_retries default of _build_and_send_tx
max_retries == 2

\* an attribute value is a pair <<text, form>>; None is the absent one
None == <<"None", "None">>

Chains == {"source", "destination"}

\* the chain a direction submits to
Other(c) == IF c = "source" THEN "destination" ELSE "source"

\* state_key scan_blocks passes for a direction
StateKey(c) == IF c = "source" THEN "source_last" ELSE "destination_last"

Min(a, b) == IF a < b THEN a ELSE b
Max(a, b) == IF a > b THEN a ELSE b

----------------------------------------------------------------------------
(* The logs on the two chains.  d1, d2 and dx are Deposit logs of the      *)
(* source contract, u1 is an Unwrap log of the destination contract.  d2   *)
(* carries the values of d1 under the field names argNames, dx lacks every *)
(* recipient alias and lies between d1 and d2.                             *)

EventIds == {"d1", "d2", "dx", "u1"}

OriginOf(e) == IF e = "u1" THEN "destination" ELSE "source"

\* position of the log inside its block (logIndex)
LogIndex(e) == CASE e = "d1" -> 0 [] e = "dx" -> 1 [] e = "d2" -> 2 [] e = "u1" -> 0

Fields == {"token", "underlying", "underlying_token", "recipient", "to", "amount", "value"}

\* ev.args: the value of each attribute, None where the ABI has no such field
ArgsOf(e) ==
    CASE e = "d1" -> [f \in Fields |->
                        CASE f = "token" -> <<"aaa", "lower">>
                          [] f = "recipient" -> <<"bbb", "lower">>
                          [] f = "amount" -> <<"100", "int">>
                          [] OTHER -> None]
      [] e = "d2" -> [f \in Fields |->
                        CASE f = argNames[1] -> <<"aaa", "lower">>
                          [] f = argNames[2] -> <<"bbb", "lower">>
                          [] f = argNames[3] -> <<"100", "int">>
                          [] OTHER -> None]
      [] e = "dx" -> [f \in Fields |->
                        CASE f = "token" -> <<"aaa", "lower">>
                          [] f = "amount" -> <<"7", "int">>
                          [] OTHER -> None]
      [] e = "u1" -> [f \in Fields |->
                        CASE f = "underlying_token" -> <<"ccc", "checksum">>
                          [] f = "to" -> <<"ddd", "lower">>
                          [] f = "amount" -> <<"5", "str">>
                          [] OTHER -> None]

----------------------------------------------------------------------------
(* _extract_bridge_args *)

\* getattr(args, name, None)
GetAttr(args, name) == args[name]

\* Web3.to_checksum_address: same hex digits, checksum casing
ToChecksumAddress(a) == <<a[1], "checksum">>

\* int(amount)
ToInt(a) == <<a[1], "int">>

\* FirstOf with a bug: the third alias is never looked at
FirstOfTwo(args, names) ==
    IF GetAttr(args, names[1]) # None THEN GetAttr(args, names[1])
    ELSE IF Len(names) > 1 THEN GetAttr(args, names[2])
    ELSE None

\* the first alias that is not None, or None
RECURSIVE FirstOf(_, _)
FirstOf(args, names) ==
    IF names = <<>> THEN None
    ELSE IF GetAttr(args, Head(names)) # None THEN GetAttr(args, Head(names))
    ELSE FirstOf(args, Tail(names))

\* ExtractBridgeArgs with a bug: token and recipient change places
ExtractBridgeArgsSwapped(e) ==
    LET args == ArgsOf(e)
        token == FirstOf(args, <<"token", "underlying", "underlying_token">>)
        recipient == FirstOf(args, <<"recipient", "to">>)
        amount == FirstOf(args, <<"amount", "value">>)
    IN  IF token = None \/ recipient = None \/ amount = None
        THEN "ValueError"
        ELSE <<ToChecksumAddress(recipient), ToChecksumAddress(token), ToInt(amount)>>

\* the (token, recipient, amount) triple, or "ValueError"
ExtractBridgeArgs(e) ==
    LET args == ArgsOf(e)
        token == FirstOf(args, <<"token", "underlying", "underlying_token">>)
        recipient == FirstOf(args, <<"recipient", "to">>)
        amount == FirstOf(args, <<"amount", "value">>)
    IN  IF token = None \/ recipient = None \/ amount = None
        THEN "ValueError"
        ELSE <<ToChecksumAddress(token), ToChecksumAddress(recipient), ToInt(amount)>>

----------------------------------------------------------------------------
(* _scan_from_last: the getLogs requests of one scan.                      *)
(* A scan is run against an oracle, a sequence of booleans: the k-th       *)
(* request of the scan succeeds iff oracle[k].  The scanner state st is    *)
(* [found, reqs]: the entries collected so far and the requests made so    *)
(* far, each <<from_block, to_block, succeeded>>.                          *)

\* (block, logIndex) order of the logs of one chain
Before(a, b) ==
    \/ blockOf[a] < blockOf[b]
    \/ blockOf[a] = blockOf[b] /\ LogIndex(a) < LogIndex(b)

RECURSIVE InOrder(_)
InOrder(S) ==
    IF S = {} THEN <<>>
    ELSE LET first == CHOOSE a \in S : \A b \in S \ {a} : Before(a, b)
         IN  <<first>> \o InOrder(S \ {first})

\* flt.get_all_entries() of a filter over from_block..to_block that succeeds
GetAllEntries(c, fb, tb) ==
    InOrder({e \in EventIds : OriginOf(e) = c /\ blockOf[e] >= fb /\ blockOf[e] <= tb})

\* does the next request succeed (a request past the oracle's end fails)
NextOk(st, oracle) ==
    IF Len(st.reqs) < Len(oracle) THEN oracle[Len(st.reqs) + 1] ELSE FALSE

\* one create_filter + get_all_entries inside its try: found.extend on success
FilterOnce(st, oracle, c, fb, tb) ==
    IF NextOk(st, oracle)
    THEN [found |-> st.found \o GetAllEntries(c, fb, tb),
          reqs |-> Append(st.reqs, <<fb, tb, TRUE>>)]
    ELSE [found |-> st.found,
          reqs |-> Append(st.reqs, <<fb, tb, FALSE>>)]

\* PerBlock with a bug: a block whose request failed is asked for once more
RECURSIVE PerBlockRetry(_, _, _, _, _)
PerBlockRetry(st, oracle, c, b, tb) ==
    IF b > tb THEN st
    ELSE LET s1 == FilterOnce(st, oracle, c, b, b)
             s2 == IF NextOk(st, oracle) THEN s1 ELSE FilterOnce(s1, oracle, c, b, b)
         IN  PerBlockRetry(s2, oracle, c, b + 1, tb)

\* for b in range(fb, tb + 1): one request per block, failures passed over
RECURSIVE PerBlock(_, _, _, _, _)
PerBlock(st, oracle, c, b, tb) ==
    IF b > tb THEN st
    ELSE PerBlock(FilterOnce(st, oracle, c, b, b), oracle, c, b + 1, tb)

\* HalfRange with a bug: a failed half is given up, without the per-block requests
HalfRangeNoFallback(st, oracle, c, fb, tb) == FilterOnce(st, oracle, c, fb, tb)

\* one entry (fb, tb) of the fallback list: the half, then per block if it fails
HalfRange(st, oracle, c, fb, tb) ==
    IF NextOk(st, oracle)
    THEN FilterOnce(st, oracle, c, fb, tb)
    ELSE PerBlock(FilterOnce(st, oracle, c, fb, tb), oracle, c, fb, tb)

\* mid = (cur + to_blk) // 2
Mid(cur, to_blk) == (cur + to_blk) \div 2

\* the body of the while loop for the chunk cur..to_blk
ScanChunk(st, oracle, c, cur, to_blk) ==
    IF NextOk(st, oracle)
    THEN FilterOnce(st, oracle, c, cur, to_blk)
    ELSE LET s1 == FilterOnce(st, oracle, c, cur, to_blk)
             mid == Mid(cur, to_blk)
             s2 == HalfRange(s1, oracle, c, cur, mid)
         IN  HalfRange(s2, oracle, c, mid + 1, to_blk)

\* to_blk = min(cur + CHUNK - 1, head)
ToBlk(cur, head) == Min(cur + CHUNK - 1, head)

\* while cur <= head: ...; cur = to_blk + 1
RECURSIVE ScanLoop(_, _, _, _, _)
ScanLoop(st, oracle, c, cur, head) ==
    IF cur > head THEN st
    ELSE ScanLoop(ScanChunk(st, oracle, c, cur, ToBlk(cur, head)),
                  oracle, c, ToBlk(cur, head) + 1, head)

\* StartOf with a bug: the scan resumes at the cursor itself
StartOfInclusive(state, key, head) ==
    IF state[key] # 0 THEN state[key] ELSE Max(0, head - safety_back)

\* start = (state.get(state_key) or max(0, head - safety_back)) + 1
StartOf(state, key, head) ==
    (IF state[key] # 0 THEN state[key] ELSE Max(0, head - safety_back)) + 1

\* CursorToSave with a bug: the loop variable cur, one past the head, is stored
CursorToSaveCur(head, st) == head + 1

\* the value _scan_from_last stores under state_key before _save_state
CursorToSave(head, st) == head

\* the most requests a scan of start..head can make: per chunk the chunk and its
\* two halves, and one request per block
MaxReqs(start, head) ==
    3 * ((head - start + CHUNK) \div CHUNK) + (head - start + 1)

\* the answers a scan of start..head can meet
Oracles(start, head) == [1..MaxReqs(start, head) -> BOOLEAN]

----------------------------------------------------------------------------
(* The state of one scan_blocks invocation *)

Keys == {StateKey(c) : c \in Chains}

\* what _load_state returns when bridge_state.json does not exist
DefaultState == [k \in Keys |-> 0]

\* no transaction of the warden is waiting in the chain's pool
NoTx == "none"

\* no invocation of the direction is running
Idle ==
    [pc |-> "idle", processed |-> {}, state |-> DefaultState, head |-> 0,
     start |-> 0, found |-> <<>>, reqs |-> <<>>, wrote |-> FALSE, i |-> 0,
     attempt |-> 0, sawRevert |-> FALSE, sentAfterRevert |-> FALSE,
     sent |-> <<>>, calls |-> <<>>, lastErr |-> NoTx, raised |-> NoTx, gas |-> 0]

\* where the logs lie: d1, dx, d2 is the order of the source chain's log; the
\* one log of the destination chain lies in the highest block that holds logs
Placements ==
    {p \in [EventIds -> 1..MaxLogBlock] :
        p["d1"] <= p["dx"] /\ p["dx"] <= p["d2"] /\ p["u1"] = MaxLogBlock}

\* the field names _extract_bridge_args accepts for token, recipient, amount
AliasChoices ==
    {"token", "underlying", "underlying_token"} \X {"recipient", "to"} \X {"amount", "value"}

\* both files absent, nothing running, nothing submitted
InitFiles ==
    /\ blockOf \in Placements
    /\ stateFile = DefaultState
    /\ processedFile = {}
    /\ inv = [d \in Chains |-> Idle]
    /\ pending = [c \in Chains |-> NoTx]
    /\ minted = [e \in EventIds |-> 0]
    /\ okReceipt = {}
    /\ ret = <<>>
    /\ timeouts = 0
    /\ tornSave = <<>>
    /\ badArg = NoTx
    /\ gasPrice = 1

Init == InitFiles /\ argNames = <<"underlying", "to", "value">>

\* d2's contract may use any of the accepted names
InitAnyNames == InitFiles /\ argNames \in AliasChoices

----------------------------------------------------------------------------
\* _load_state: the content of the file; the defaults when json.load raises on
\* an empty or half-written file
LoadState == IF tornSave # <<>> THEN DefaultState ELSE stateFile

\* what scan_blocks may be called with: the two directions and the names
\* connect_to knew the chains by
ChainArgs == Chains \cup {"avax", "bsc"}

\* ValidChain with a bug: the argument check lets every name through
ValidChainAny(chain) == TRUE

\* not "if chain not in ['source', 'destination']"
ValidChain(chain) == chain \in {"source", "destination"}

(* scan_blocks(chain) for an argument that names no direction: the check   *)
(* prints and returns 0.  (Past the check such a call would connect, load  *)
(* the processed set, enter neither branch and return 1.)                  *)
ScanBlocksOther(chain) ==
    /\ chain \in ChainArgs \ Chains
    /\ ret' = IF ValidChain(chain) THEN <<1>> ELSE <<0>>
    /\ badArg' = chain
    /\ UNCHANGED <<blockOf, argNames, gasPrice, stateFile, processedFile, inv, pending,
                   minted, okReceipt, timeouts, tornSave>>

(* scan_blocks(chain), from its entry to the first getLogs request:        *)
(* _load_processed, then _scan_from_last up to "if start > head".  head is *)
(* what w3.eth.block_number answers.                                       *)
ScanBlocksBegin(d, head) ==
    /\ inv[d].pc = "idle"
    /\ ValidChain(d)
    /\ LET state == LoadState
           start == StartOf(state, StateKey(d), head)
       IN  inv' = [inv EXCEPT ![d] =
                     [Idle EXCEPT
                        !.pc = IF start > head THEN "scanned" ELSE "scanning",
                        !.processed = processedFile,
                        !.state = state,
                        !.head = head,
                        !.start = start]]
    /\ UNCHANGED <<blockOf, argNames, badArg, gasPrice, tornSave, stateFile, processedFile, pending, minted, okReceipt, ret, timeouts>>

(* _scan_from_last from the while loop to its return: every getLogs        *)
(* request of the scan, answered by the oracle, then state[state_key] and  *)
(* _save_state, which rewrites the whole file from the loaded dict.        *)
ScanFromLast(d, oracle) ==
    /\ inv[d].pc = "scanning"
    /\ LET st == ScanLoop([found |-> <<>>, reqs |-> <<>>], oracle, d,
                          inv[d].start, inv[d].head)
           state == [inv[d].state EXCEPT ![StateKey(d)] = CursorToSave(inv[d].head, st)]
       IN  /\ stateFile' = state
           /\ tornSave' = <<>>
           /\ inv' = [inv EXCEPT ![d].pc = "scanned",
                                 ![d].found = st.found,
                                 ![d].reqs = st.reqs,
                                 ![d].wrote = TRUE]
    /\ UNCHANGED <<blockOf, argNames, badArg, gasPrice, processedFile, pending, minted, okReceipt, ret, timeouts>>

(* The process dies inside _save_state at the end of a scan: before        *)
(* open(STATE_FILE, "w") has truncated the file ("before"), after the      *)
(* truncation and before json.dump has written the last byte ("torn"), or  *)
(* once the new content is complete ("after").  The invocation is gone and *)
(* returns nothing.                                                        *)
CrashPoints == {"before", "torn", "after"}

SaveStateCrash(d, oracle, at) ==
    /\ inv[d].pc = "scanning"
    /\ LET st == ScanLoop([found |-> <<>>, reqs |-> <<>>], oracle, d,
                          inv[d].start, inv[d].head)
           state == [inv[d].state EXCEPT ![StateKey(d)] = CursorToSave(inv[d].head, st)]
       IN  /\ stateFile' = IF at = "after" THEN state ELSE stateFile
           /\ tornSave' = CASE at = "torn" -> <<LoadState, state>>
                             [] at = "after" -> <<>>
                             [] OTHER -> tornSave
    /\ inv' = [inv EXCEPT ![d] = Idle]
    /\ UNCHANGED <<blockOf, argNames, badArg, gasPrice, processedFile, pending, minted, okReceipt, ret, timeouts>>

(* "if not deposits: ... return 0", else enter the for loop *)
ScanBlocksDispatch(d) ==
    /\ inv[d].pc = "scanned"
    /\ IF inv[d].found = <<>>
       THEN /\ inv' = [inv EXCEPT ![d] = Idle]
            /\ ret' = <<0>>
       ELSE /\ inv' = [inv EXCEPT ![d].pc = "relay", ![d].i = 1, ![d].reqs = <<>>,
                                  ![d].wrote = FALSE]
            /\ UNCHANGED ret
    /\ UNCHANGED <<blockOf, argNames, badArg, gasPrice, tornSave, stateFile, processedFile, pending, minted, okReceipt, timeouts>>

\* the function of the other chain's contract a direction calls
CounterpartFn(d) == IF d = "source" THEN "wrap" ELSE "withdraw"

\* fn = dst_contract.functions.wrap(token, recipient, amount), or
\* src_contract.functions.withdraw(...): the call handed to _build_and_send_tx
BuildCall(d, e) == <<CounterpartFn(d)>> \o ExtractBridgeArgs(e)

\* EventAt with a bug: the loop walks the list from its end
EventAtReversed(found, i) == found[Len(found) + 1 - i]

\* "for ev in deposits" / "for ev in unwraps": the event of the i-th turn
EventAt(found, i) == found[i]

\* Continue with a bug: the handler leaves the loop instead of going on
BreakLoop(found, i) == Len(found) + 1

\* "continue" in the for loop: on to the next event of the list
Continue(found, i) == i + 1

(* The for loop over the found events up to the call of                    *)
(* _build_and_send_tx: the processed check, _extract_bridge_args; after    *)
(* the last event, _save_processed and "return 1".                         *)
RelayNext(d) ==
    /\ inv[d].pc = "relay"
    /\ IF inv[d].i > Len(inv[d].found)
       THEN /\ processedFile' = inv[d].processed
            /\ inv' = [inv EXCEPT ![d] = Idle]
            /\ ret' = <<1>>
       ELSE /\ UNCHANGED <<processedFile, ret>>
            /\ LET e == EventAt(inv[d].found, inv[d].i)
               IN  inv' = [inv EXCEPT ![d] =
                             IF e \in inv[d].processed \/ ExtractBridgeArgs(e) = "ValueError"
                             THEN [inv[d] EXCEPT !.i = Continue(inv[d].found, inv[d].i),
                                                 !.sentAfterRevert = FALSE,
                                                 !.raised = NoTx,
                                                 !.gas = 0]
                             ELSE [inv[d] EXCEPT !.pc = "send", !.attempt = 0,
                                                 !.sawRevert = FALSE,
                                                 !.sentAfterRevert = FALSE,
                                                 !.lastErr = NoTx,
                                                 !.raised = NoTx,
                                                 !.gas = 0,
                                                 !.sent = Append(inv[d].sent, e),
                                                 !.calls = Append(inv[d].calls,
                                                                  BuildCall(d, e))]]
    /\ UNCHANGED <<blockOf, argNames, badArg, gasPrice, tornSave, stateFile, pending, minted, okReceipt, timeouts>>

----------------------------------------------------------------------------
(* _build_and_send_tx: one turn of "for attempt in range(max_retries+1)".  *)
(* What the turn meets:                                                    *)
(*   "senderr"  an exception before or at send_raw_transaction (also a     *)
(*              refused replacement of the pending transaction): nothing   *)
(*              is broadcast;                                              *)
(*   "status1"  broadcast, mined, receipt.status = 1;                      *)
(*   "status0"  broadcast, mined, receipt.status = 0;                      *)
(*   "timeout"  broadcast, wait_for_transaction_receipt times out: the     *)
(*              transaction stays pending;                                 *)
(*   "underpriced"  built and signed, send_raw_transaction refuses it with *)
(*              "replacement transaction underpriced" or "nonce too low":  *)
(*              nothing is broadcast.                                      *)
(* The nonce is get_transaction_count(sender), the number of mined         *)
(* transactions, so a broadcast takes the place of the pending one.        *)
Outcomes == {"senderr", "status1", "status0", "timeout"}

\* the outcomes in which the node refuses the signed transaction
Refusals == {"underpriced"}

\* "gasPrice": w3.eth.gas_price in build_transaction: the gas price of the
\* transaction the turn builds; a turn that fails before it builds none
TxGasPrice(prev, out) == IF out = "senderr" THEN prev ELSE gasPrice

\* the target contract executes one more wrap/withdraw for event e
Credit(m, e) == [m EXCEPT ![e] = m[e] + 1]

\* ReturnsReceipt with a bug: the receipt is returned whatever its status
ReturnsAnyReceipt(out) == out \in {"status1", "status0"}

\* "if getattr(receipt, 'status', 0) != 1: raise", else "return receipt"
ReturnsReceipt(out) == out = "status1"

\* MoreAttempts with a bug: one turn more than range(max_retries + 1) has
MoreAttemptsOneMore(attempt) == attempt <= max_retries

\* the except branch: another turn while attempts remain, else the final raise
MoreAttempts(attempt) == attempt < max_retries

\* the exception handler of _build_and_send_tx, whatever was raised in the try
ExceptRetries(out, attempt) == MoreAttempts(attempt)

\* "except Exception as e: last_err = e"
LastErr(last_err, out) == out

SendAttempt(d, out) ==
    /\ inv[d].pc = "send"
    /\ LET e == EventAt(inv[d].found, inv[d].i)
           t == Other(d)
           broadcast == out \notin {"senderr"} \cup Refusals
       IN  /\ pending' = [pending EXCEPT ![t] =
                            IF out = "timeout" THEN e
                            ELSE IF broadcast THEN NoTx
                            ELSE pending[t]]
           /\ minted' = IF out = "status1"
                        THEN Credit(minted, e)
                        ELSE minted
           /\ IF ReturnsReceipt(out)
              THEN \* receipt returned: processed.add(evt_id), next event
                   /\ okReceipt' = IF out = "status1" THEN okReceipt \cup {e} ELSE okReceipt
                   /\ inv' = [inv EXCEPT ![d].pc = "relay",
                                         ![d].processed = inv[d].processed \cup {e},
                                         ![d].i = inv[d].i + 1,
                                         ![d].lastErr = NoTx,
                                         ![d].gas = TxGasPrice(inv[d].gas, out),
                                         ![d].sentAfterRevert =
                                             inv[d].sentAfterRevert \/ (broadcast /\ inv[d].sawRevert)]
              ELSE /\ UNCHANGED okReceipt
                   /\ inv' = [inv EXCEPT ![d] =
                                IF ExceptRetries(out, inv[d].attempt)
                                THEN [inv[d] EXCEPT
                                        !.attempt = inv[d].attempt + 1,
                                        !.lastErr = LastErr(inv[d].lastErr, out),
                                        !.gas = TxGasPrice(inv[d].gas, out),
                                        !.sawRevert = inv[d].sawRevert \/ out = "status0",
                                        !.sentAfterRevert =
                                            inv[d].sentAfterRevert \/ (broadcast /\ inv[d].sawRevert)]
                                ELSE \* raise RuntimeError; scan_blocks prints and goes on
                                     [inv[d] EXCEPT
                                        !.pc = "relay",
                                        !.i = inv[d].i + 1,
                                        !.lastErr = NoTx,
                                        !.raised = LastErr(inv[d].lastErr, out),
                                        !.gas = TxGasPrice(inv[d].gas, out),
                                        !.sentAfterRevert =
                                            inv[d].sentAfterRevert \/ (broadcast /\ inv[d].sawRevert)]]
    /\ timeouts' = IF out = "timeout" THEN timeouts + 1 ELSE timeouts
    /\ UNCHANGED <<blockOf, argNames, badArg, gasPrice, tornSave, stateFile, processedFile, ret>>

(* The chain mines the pending transaction of a timed-out wait: with       *)
(* status 1 the wrap/withdraw takes effect, with status 0 (or when the     *)
(* node drops it) nothing remains of it.                                   *)
MinePending(t, status) ==
    /\ pending[t] # NoTx
    /\ pending' = [pending EXCEPT ![t] = NoTx]
    /\ minted' = IF status = 1
                 THEN Credit(minted, pending[t])
                 ELSE minted
    /\ UNCHANGED <<blockOf, argNames, badArg, gasPrice, tornSave, stateFile, processedFile, inv, okReceipt, ret, timeouts>>

(* The gas price the node reports changes. *)
GasPriceMoves(g) ==
    /\ g # gasPrice
    /\ gasPrice' = g
    /\ UNCHANGED <<blockOf, argNames, badArg, tornSave, stateFile, processedFile, inv,
                   pending, minted, okReceipt, ret, timeouts>>

(* bridge_state.json is absent at the next _load_state (removed by the     *)
(* operator to rewind the scan, or a fresh working directory): the cursors *)
(* read as the defaults again, the processed file is kept.                 *)
StateFileRemoved ==
    /\ \A d \in Chains : inv[d].pc = "idle"
    /\ stateFile # DefaultState
    /\ stateFile' = DefaultState
    /\ tornSave' = <<>>
    /\ UNCHANGED <<blockOf, argNames, badArg, gasPrice, processedFile, inv, pending, minted, okReceipt, ret, timeouts>>

----------------------------------------------------------------------------
\* invocations run one at a time
NoneRunning == \A d \in Chains : inv[d].pc = "idle"

Next ==
    \/ \E d \in Chains, head \in 0..MaxHead : NoneRunning /\ ScanBlocksBegin(d, head)
    \/ \E d \in Chains : \E oracle \in Oracles(inv[d].start, inv[d].head) :
          ScanFromLast(d, oracle)
    \/ \E d \in Chains : ScanBlocksDispatch(d)
    \/ \E d \in Chains : RelayNext(d)
    \/ \E d \in Chains, out \in Outcomes :
          (out = "timeout" => timeouts < MaxTimeouts) /\ SendAttempt(d, out)
    \/ \E t \in Chains, status \in {0, 1} : MinePending(t, status)

Spec == Init /\ [][Next]_vars

\* the same program where the operator may also remove bridge_state.json
NextRewind == Next \/ StateFileRemoved

RewindSpec == Init /\ [][NextRewind]_vars

(* The program polled forever on chains that eventually answer: a running  *)
(* invocation takes its next step, each direction is invoked again and     *)
(* again and sees the full head, a scan that is started again and again    *)
(* meets an RPC that answers every request, and a submission that is tried *)
(* again and again is mined with status 1.                                 *)
AllOk(d) == [k \in 1..MaxReqs(inv[d].start, inv[d].head) |-> TRUE]

LiveSpec ==
    /\ Init /\ [][Next]_vars
    /\ WF_vars(Next)
    /\ \A d \in Chains : SF_vars(NoneRunning /\ ScanBlocksBegin(d, MaxHead))
    /\ \A d \in Chains : SF_vars(ScanFromLast(d, AllOk(d)))
    /\ \A d \in Chains : SF_vars(SendAttempt(d, "status1"))

(* The program on a reliable RPC: every getLogs request is answered and    *)
(* every submission is mined with status 1 on its first attempt.           *)
NextReliable ==
    \/ \E d \in Chains, head \in 0..MaxHead : NoneRunning /\ ScanBlocksBegin(d, head)
    \/ \E d \in Chains : ScanFromLast(d, AllOk(d))
    \/ \E d \in Chains : ScanBlocksDispatch(d)
    \/ \E d \in Chains : RelayNext(d)
    \/ \E d \in Chains : SendAttempt(d, "status1")

ReliableSpec == Init /\ [][NextReliable]_vars

(* The two directions invoked as separate processes that may overlap, on a *)
(* reliable RPC: scan_blocks takes no lock, so the steps of the two        *)
(* invocations interleave freely between their file reads and writes.      *)
NextOverlap ==
    \/ \E d \in Chains, head \in 0..MaxHead : ScanBlocksBegin(d, head)
    \/ \E d \in Chains : ScanFromLast(d, AllOk(d))
    \/ \E d \in Chains : ScanBlocksDispatch(d)
    \/ \E d \in Chains : RelayNext(d)
    \/ \E d \in Chains : SendAttempt(d, "status1")

OverlapSpec == Init /\ [][NextOverlap]_vars

(* The program on a reliable RPC where the process may die inside          *)
(* _save_state.                                                            *)
NextCrash ==
    \/ NextReliable
    \/ \E d \in Chains, at \in CrashPoints : SaveStateCrash(d, AllOk(d), at)

CrashSpec == Init /\ [][NextCrash]_vars

(* The program on a reliable RPC, for every choice of accepted field names *)
(* in the ABI of d2's contract.                                            *)
NamesSpec == InitAnyNames /\ [][NextReliable]_vars

(* The program on a reliable RPC, called with any argument. *)
NextAnyArg ==
    \/ NextReliable
    \/ \E chain \in ChainArgs \ Chains : NoneRunning /\ ScanBlocksOther(chain)

AnyArgSpec == Init /\ [][NextAnyArg]_vars

(* The program on an RPC that answers every getLogs request, where the     *)
(* node may refuse a signed transaction as underpriced or stale and the    *)
(* gas price it reports moves.                                             *)
NextRefusal ==
    \/ NextReliable
    \/ \E d \in Chains, out \in Refusals : SendAttempt(d, out)
    \/ \E g \in 1..MaxGasPrice : GasPriceMoves(g)

RefusalSpec == Init /\ [][NextRefusal]_vars

(* The program on a reliable RPC, on chains whose head may also stand at   *)
(* or above safety_back, so that a first run does not start at block 1.    *)
HighHeads == {safety_back + k : k \in 0..MaxHead}

NextFirstRun ==
    \/ NextReliable
    \/ \E d \in Chains, head \in HighHeads : NoneRunning /\ ScanBlocksBegin(d, head)

FirstRunSpec == Init /\ [][NextFirstRun]_vars

----------------------------------------------------------------------------
(* Properties *)

\* the events _extract_bridge_args can decode
Relayable == {e \in EventIds : ExtractBridgeArgs(e) # "ValueError"}

\* the cursor the invocation of direction d loaded, and the persisted one
LoadedCursor(d) == inv[d].state[StateKey(d)]
SavedCursor(d) == stateFile[StateKey(d)]

\* _scan_from_last of direction d has just returned
Scanned(d) == inv[d].pc = "scanned"

\* the scan made requests (it did not return at "if start > head")
RanRequests(d) == Scanned(d) /\ inv[d].wrote

ReqIndexes(d) == 1..Len(inv[d].reqs)

\* some request of the scan that succeeded covered height h
Covered(d, h) ==
    \E k \in ReqIndexes(d) :
        inv[d].reqs[k][3] /\ inv[d].reqs[k][1] <= h /\ h <= inv[d].reqs[k][2]

\* every request of the scan failed
AllFailed(d) == \A k \in ReqIndexes(d) : ~inv[d].reqs[k][3]

\* number of blocks a request spans
Width(r) == r[2] - r[1] + 1

\* how many requests of the scan asked for the range of its k-th request
TimesRequested(d, k) ==
    Cardinality({j \in ReqIndexes(d) :
        inv[d].reqs[j][1] = inv[d].reqs[k][1] /\ inv[d].reqs[j][2] = inv[d].reqs[k][2]})

(* C1: no bridge event ever has more than one counterpart transaction      *)
(* (wrap or withdraw) mined with success status on the other chain.        *)
C1_AtMostOneCounterpart == \A e \in EventIds : minted[e] <= 1

(* C2: when an invocation is presented an event that an earlier invocation *)
(* settled (its id is in the processed file), exactly one counterpart      *)
(* transaction of the event exists on chain, and the invocation does not   *)
(* submit for it.                                                          *)
C2_Idempotent ==
    \A d \in Chains : \A k \in 1..Len(inv[d].found) :
        (inv[d].pc \in {"relay", "send"} /\ inv[d].found[k] \in processedFile)
            => /\ minted[inv[d].found[k]] = 1
               /\ ~(inv[d].pc = "send" /\ inv[d].i = k)

(* C3: after a run of _scan_from_last every height in (old cursor, new     *)
(* cursor] was covered by a getLogs request that succeeded.                *)
C3_CursorOnlyPastRetrieved ==
    \A d \in Chains :
        Scanned(d) => \A h \in (LoadedCursor(d) + 1)..SavedCursor(d) : Covered(d, h)

(* C4: a scan whose getLogs requests all fail returns and leaves the       *)
(* persisted cursor of its chain as it was.                                *)
C4_AbortLeavesCursor ==
    \A d \in Chains :
        (RanRequests(d) /\ AllFailed(d)) => SavedCursor(d) = LoadedCursor(d)

(* C5: across sequential scans the persisted cursor of a chain never       *)
(* decreases and, after a scan, never exceeds the head that scan observed. *)
C5_MonotoneBelowHead ==
    \A d \in Chains :
        Scanned(d) => SavedCursor(d) >= LoadedCursor(d) /\ SavedCursor(d) <= inv[d].head

(* C5 as amended: no step lowers a persisted cursor; a scan that makes     *)
(* requests persists exactly the head it observed; a scan that observes a  *)
(* head not above the stored cursor persists nothing, and the stored       *)
(* cursor is then at or above that head.                                   *)
C5_MonotoneWritesHead ==
    /\ [][\A k \in Keys : stateFile'[k] >= stateFile[k]]_vars
    /\ [](\A d \in Chains :
            Scanned(d) =>
                /\ stateFile[StateKey(Other(d))] = inv[d].state[StateKey(Other(d))]
                /\ IF inv[d].wrote
                   THEN SavedCursor(d) = inv[d].head /\ SavedCursor(d) > LoadedCursor(d)
                   ELSE SavedCursor(d) = LoadedCursor(d) /\ SavedCursor(d) >= inv[d].head)

\* a scan returned without writing because the head was below the stored cursor
C5_Witness ==
    \E d \in Chains :
        /\ Scanned(d) /\ ~inv[d].wrote /\ inv[d].head < SavedCursor(d)
        /\ \E c \in Chains : Scanned(c) = (c = d) /\ stateFile[StateKey(Other(d))] > 0

\* the submission for event e has just ended without a receipt of status 1
SubmissionFailed(e) ==
    \E d \in Chains :
        /\ inv[d].pc = "relay" /\ inv[d].i > 1
        /\ inv[d].found[inv[d].i - 1] = e
        /\ e \in Relayable /\ e \notin inv[d].processed

(* C6: an event whose submission did not end in a confirmed success is     *)
(* submitted again by a later invocation and in the end settled, when the  *)
(* RPC and the destination call eventually succeed.                        *)
C6_FailedIsRetried ==
    \A e \in EventIds : SubmissionFailed(e) ~> (e \in processedFile)

(* C7: an event id is in the processed set, in memory or persisted, only   *)
(* if a counterpart transaction for it was broadcast and its receipt had   *)
(* success status.                                                         *)
C7_ProcessedOnlyAfterSuccess ==
    /\ processedFile \subseteq okReceipt
    /\ \A d \in Chains : inv[d].processed \subseteq okReceipt

\* an invocation has returned having marked d1 and not d2, whose submission failed
C7_Witness ==
    /\ NoneRunning /\ ret = <<1>>
    /\ "d1" \in processedFile /\ "d2" \notin processedFile
    /\ blockOf["d2"] <= stateFile["source_last"]

(* C8: after a receipt with non-success status the same call of            *)
(* _build_and_send_tx broadcasts nothing more.                             *)
C8_NoBroadcastAfterRevert == \A d \in Chains : ~inv[d].sentAfterRevert

(* C9: a scan returns after a bounded number of requests and asks for no   *)
(* range twice.                                                            *)
C9_BoundedNoRepeat ==
    \A d \in Chains :
        RanRequests(d) =>
            /\ Len(inv[d].reqs) <= MaxReqs(inv[d].start, inv[d].head)
            /\ \A k \in ReqIndexes(d) : TimesRequested(d, k) = 1

(* C9 as amended: a scan returns after at most three requests per chunk    *)
(* plus one per block, and asks for any one range at most three times (a   *)
(* failing single-block chunk is asked for again as its own first half and *)
(* again per block).                                                       *)
C9_BoundedRepeatAtMostThrice ==
    \A d \in Chains :
        RanRequests(d) =>
            /\ Len(inv[d].reqs) <= MaxReqs(inv[d].start, inv[d].head)
            /\ \A k \in ReqIndexes(d) : TimesRequested(d, k) <= 3

\* a scan of a single block in which every request failed: the block was asked
\* for three times and the scan returned
C9_Witness ==
    \E d \in Chains :
        /\ RanRequests(d) /\ AllFailed(d)
        /\ inv[d].start = inv[d].head
        /\ Len(inv[d].reqs) = MaxReqs(inv[d].start, inv[d].head)
        /\ \E k \in ReqIndexes(d) : TimesRequested(d, k) = 3

\* the RPC of the scan failed every request wider than one block and answered
\* every single-block request
FailsWide(d) ==
    \A k \in ReqIndexes(d) :
        /\ Width(inv[d].reqs[k]) > 1 => ~inv[d].reqs[k][3]
        /\ Width(inv[d].reqs[k]) = 1 => inv[d].reqs[k][3]

(* C10: under an RPC that fails every request wider than one block and     *)
(* answers single-block requests, the scan returns every log of            *)
(* start..head exactly once, in order.                                     *)
C10_ChunkConvergence ==
    \A d \in Chains :
        (RanRequests(d) /\ FailsWide(d))
            => inv[d].found = GetAllEntries(d, inv[d].start, inv[d].head)

\* such a scan over three blocks: the chunk and its first half failed, the logs
\* came from the per-block requests
C10_Witness ==
    \E d \in Chains :
        /\ RanRequests(d) /\ FailsWide(d)
        /\ inv[d].head - inv[d].start = 2
        /\ Len(inv[d].reqs) = 5
        /\ ~inv[d].reqs[2][3]
        /\ inv[d].found # <<>>

\* positions of the list of events for which the invocation of d has called
\* _build_and_send_tx so far, in the order of the calls
SentIndexes(d) == 1..Len(inv[d].sent)

MarkedNow(d) == inv[d].processed \ processedFile

(* C12: an invocation returns the number of events it relayed: the number  *)
(* of ids it marked processed after a receipt of success, 0 when it marked *)
(* none.                                                                   *)
C12_ReturnsRelayedCount ==
    [][\A d \in Chains :
          (inv[d].pc # "idle" /\ inv'[d].pc = "idle")
              => ret' = <<Cardinality(MarkedNow(d))>>]_vars

\* the texts the log of e carries for the attributes of the given names
Emitted(e, names) == {ArgsOf(e)[f][1] : f \in {g \in names : ArgsOf(e)[g] # None}}

\* the calls the invocation of d made for event e
CallsFor(d, e) == {k \in SentIndexes(d) : inv[d].sent[k] = e}

\* call c is the counterpart call of direction d with the values of event e
CallCarries(d, c, e) ==
    /\ c[1] = CounterpartFn(d)
    /\ Emitted(e, {"token", "underlying", "underlying_token"}) = {c[2][1]}
    /\ Emitted(e, {"recipient", "to"}) = {c[3][1]}
    /\ Emitted(e, {"amount", "value"}) = {c[4][1]}

\* the decodable events of chain d in (loaded cursor, head]
NewEvents(d) ==
    {e \in Relayable :
        OriginOf(e) = d /\ LoadedCursor(d) < blockOf[e] /\ blockOf[e] <= inv[d].head}

C14_DedupMonotone == NoneRunning => okReceipt \subseteq processedFile

(* C15: when invocations of the two directions overlap, no write of the    *)
(* state file lowers the cursor of either chain: each scan's write keeps   *)
(* what the other scan wrote.                                              *)
C15_NoLostCursorUpdate == [][\A k \in Keys : stateFile'[k] >= stateFile[k]]_vars

(* C16: after a crash at any point of _save_state the next _load_state     *)
(* returns the complete prior content or the complete new content of the   *)
(* file, never the defaults or a part.                                     *)
C16_SaveCrashSafe ==
    tornSave # <<>> => LoadState \in {tornSave[1], tornSave[2]}

\* the events for which the invocation of d has called _build_and_send_tx
Sent(d) == {inv[d].sent[k] : k \in SentIndexes(d)}

\* the for loop of the invocation of d has passed its last event
LoopDone(d) == inv[d].pc = "relay" /\ inv[d].i > Len(inv[d].found)

(* C17: an event that has no alias of token, recipient or amount is never  *)
(* submitted and never marked processed, and the loop still reaches every  *)
(* other event of the batch: each decodable event that was not processed   *)
(* before has been submitted when the loop ends.                           *)
C17_DecodeFailurePerEvent ==
    \A d \in Chains :
        /\ \A e \in Sent(d) \cup inv[d].processed : ExtractBridgeArgs(e) # "ValueError"
        /\ LoopDone(d) =>
              \A k \in 1..Len(inv[d].found) :
                  (inv[d].found[k] \in Relayable \ processedFile)
                      => inv[d].found[k] \in Sent(d)

\* a batch with the undecodable dx between d1 and d2: both were submitted and
\* marked after dx was passed over
C17_Witness ==
    \E d \in Chains :
        /\ LoopDone(d)
        /\ inv[d].found = <<"d1", "dx", "d2">>
        /\ inv[d].sent = <<"d1", "d2">>
        /\ inv[d].processed = {"d1", "d2"}

(* C18: whatever accepted names carry them, the values of d1 normalise to  *)
(* the triple of d1, which uses the canonical names: _extract_bridge_args  *)
(* gives the same triple for d2 and d1, and the call built for d2 is the   *)
(* call built for d1.                                                      *)
C18_AliasesNormaliseAlike ==
    /\ "d2" \in Relayable
    /\ ExtractBridgeArgs("d2") = ExtractBridgeArgs("d1")
    /\ \A d \in Chains : \A k \in SentIndexes(d) :
          inv[d].sent[k] = "d2" => inv[d].calls[k] = BuildCall(d, "d1")

\* d2 under the last alias of each attribute that has more than the canonical
\* name has been decoded and its call built
C18_Witness ==
    /\ argNames = <<"underlying_token", "to", "value">>
    /\ \E d \in Chains : \E k \in SentIndexes(d) :
          inv[d].sent[k] = "d2" /\ inv[d].calls[k][2] = <<"aaa", "checksum">>

(* C19: a call of scan_blocks with an argument other than 'source' and     *)
(* 'destination' returns 0 at once: it starts no scan (no head read, no    *)
(* getLogs request), submits nothing, and leaves both files as they were.  *)
C19_BadChainAborts ==
    [][\A chain \in ChainArgs \ Chains :
          ScanBlocksOther(chain) =>
              /\ ret' = <<0>>
              /\ UNCHANGED <<stateFile, processedFile, tornSave, inv, pending,
                             minted, okReceipt, timeouts>>]_vars

\* scan_blocks('avax') has returned 0 after earlier invocations had moved a
\* cursor and marked events
C19_Witness ==
    /\ badArg = "avax" /\ ret = <<0>> /\ NoneRunning
    /\ stateFile # DefaultState /\ processedFile # {}

\* the call of _build_and_send_tx by the invocation of d ends in this step,
\* with a receipt returned or with the final raise
CallReturns(d) ==
    /\ inv[d].pc = "send" /\ inv'[d].pc = "relay"
    /\ EventAt(inv[d].found, inv[d].i) \in inv'[d].processed

CallRaises(d) ==
    /\ inv[d].pc = "send" /\ inv'[d].pc = "relay"
    /\ EventAt(inv[d].found, inv[d].i) \notin inv'[d].processed

(* C20: one call of _build_and_send_tx takes at most max_retries + 1 turns *)
(* of its loop, each with at most one broadcast; it returns only in a turn *)
(* whose transaction was mined with status 1; it raises only after the     *)
(* last turn, and the error carries what that turn met (a receipt timeout  *)
(* exactly when that turn's wait timed out).                               *)
C20_BoundedAttempts ==
    [][\A d \in Chains :
          /\ inv[d].pc = "send" => inv[d].attempt <= max_retries
          /\ CallReturns(d) =>
                /\ inv'[d].raised = NoTx
                /\ \E e \in EventIds : minted' = Credit(minted, e)
          /\ CallRaises(d) =>
                /\ inv[d].attempt = max_retries
                /\ inv'[d].raised \in Outcomes \ {"status1"}
                /\ (inv'[d].raised = "timeout") = (timeouts' = timeouts + 1)
                /\ inv'[d].raised = "status0" => pending'[Other(d)] = NoTx]_vars

\* a call has raised after three turns: a receipt timeout and a revert, in some
\* order, then a send error, which the RuntimeError carries
C20_Witness ==
    \E d \in Chains :
        /\ inv[d].pc = "relay" /\ inv[d].raised = "senderr"
        /\ inv[d].sawRevert /\ timeouts = 1
        /\ okReceipt = {} /\ Len(inv[d].sent) = 1

\* the invocation of d takes a turn of the retry loop in this step
TurnTaken(d) == inv[d].pc = "send" /\ inv'[d] # inv[d]

(* C21: after send_raw_transaction refused a transaction as underpriced or *)
(* for its nonce, the call signs and broadcasts once more with a strictly  *)
(* higher gas price: the turn after a refusal builds its transaction with  *)
(* a higher gas price than the refused one, and the call does not raise on *)
(* a refusal that was not itself such a second broadcast.                  *)
C21_RefusalRebroadcastsHigher ==
    [][\A d \in Chains :
          /\ (TurnTaken(d) /\ inv[d].lastErr \in Refusals)
                => inv'[d].gas > inv[d].gas
          /\ (CallRaises(d) /\ inv'[d].raised \in Refusals)
                => inv[d].lastErr \in Refusals]_vars

\* the from_block of the first getLogs request of the scan of d
FirstQueried(d) == inv[d].reqs[1][1]

(* C22: the first height a scan queries is the stored cursor plus one when *)
(* the chain has a cursor, and head - safety_back, not below 0, when it    *)
(* has none.                                                               *)
C22_FirstHeightQueried ==
    \A d \in Chains :
        RanRequests(d) =>
            FirstQueried(d) = IF LoadedCursor(d) # 0
                              THEN LoadedCursor(d) + 1
                              ELSE Max(0, inv[d].head - safety_back)

(* C23: run one at a time, an invocation changes no cursor but that of its *)
(* own chain, and only in the step that ends its scan; an invocation that  *)
(* sees a head not above the cursor it loaded makes no request, writes no  *)
(* state and has no events.                                                *)
C23_ScanFrame ==
    /\ [][\A k \in Keys :
            stateFile'[k] # stateFile[k] =>
                \E d \in Chains :
                    k = StateKey(d) /\ inv[d].pc = "scanning" /\ inv'[d].wrote]_vars
    /\ [](\A d \in Chains :
            (inv[d].pc # "idle" /\ inv[d].head <= LoadedCursor(d)) =>
                /\ Scanned(d) /\ ~inv[d].wrote
                /\ inv[d].found = <<>>
                /\ stateFile = inv[d].state)

\* a scan has returned at once on a head equal to its stored cursor, the other
\* chain's cursor standing above 0
C23_Witness ==
    \E d \in Chains :
        /\ Scanned(d) /\ ~inv[d].wrote
        /\ inv[d].head = LoadedCursor(d) /\ inv[d].head > 0
        /\ stateFile[StateKey(Other(d))] > 0

====
